---- MODULE Spec2Model ----
(***************************************************************************)
(* The push-channel connection manager of sliver-ui: the useWebSocket hook *)
(* (frontend/src/hooks/useWebSocket.ts, kept as src/unnamed/part_002,      *)
(* lines 67-385), mounted under React.StrictMode (src/unnamed/part_001).   *)
(*                                                                         *)
(* The hook keeps three refs (wsRef, reconnectCountRef,                    *)
(* reconnectTimeoutRef) shared by every run of its effect, one `disposed`  *)
(* flag per run of the effect, and the isConnected / lastMessage state.    *)
(* Sockets and timers live in the browser: a socket's handlers run when    *)
(* the browser delivers its open / close / message event, a timer's        *)
(* callback when it fires.                                                 *)
(*                                                                         *)
(* A socket is known to the hook only through wsRef and through the        *)
(* closures of its handlers, so the sockets are a bag of records: `ref`    *)
(* says that wsRef.current is this socket, `owner` whose handlers it has   *)
(* ("manual": connect(); "cur": the latest run of the effect; "old": an    *)
(* earlier run, whose `disposed` is true for good).  A closed socket is    *)
(* dropped from the bag.  The pending timers are kept in the order they    *)
(* were set; `tracked` says that reconnectTimeoutRef.current is this       *)
(* timer's handle.                                                         *)
(***************************************************************************)
EXTENDS Integers, Sequences, FiniteSets, Bags, TLC

\* ---------------------------------------------------------------- constants
\* useWebSocket's option defaults, the delay of the token-change reconnect
\* and the close code every ws.close() of the hook passes.
reconnectAttempts == 5
reconnectInterval == 3000
tokenChangeDelay == 100
CleanClose == 1000

\* ------------------------------------------------------------------- bounds
\* Sockets not yet closed, and timers pending, at any one time.
MaxSockets == 2
MaxTimers == 2
\* Frames delivered in a run.
MaxFrames == 3
\* Tunnels started, panel instances mounted, requests and responses under way.
MaxTunnels == 2
MaxPanels == 2
MaxInFlight == 2
\* Tunnels started when the TunnelManager is driven alone.
MaxCalls == 3
\* Events published on the EventBus.
MaxPublish == 4
\* AutomationPanel instances mounted, automation sessions started, scripts
\* submitted, and automation requests and responses under way.
MaxInstances == 2
MaxBrowsers == 2
MaxScripts == 2
MaxUnderWay == 2
MaxMutations == 5
\* Cookies extracted.
MaxCookies == 3

NoToken == "none"
Tokens == {"t1", "t2"}
\* 1006: the code of a close event with no close frame (a failed handshake, a
\* dropped connection, close() called before the connection was established).
CloseCodes == {CleanClose, 1006}

VARIABLES
    token,                \* localStorage['sliverui-auth'].state.accessToken
    mounted,              \* "never", "yes": the effect is active, "no": cleaned up
    socks,                \* the bag of WebSockets created and not yet closed
    timers,               \* the pending setTimeout timers, in the order they were set
    reconnectCount,       \* reconnectCountRef.current
    reconnectTimeoutRef,  \* reconnectTimeoutRef.current: "null" or "handle"
    isConnected,          \* the isConnected state
    lastMessage,          \* the lastMessage state: a parsed frame, NoFrame (null) at first
    invalidated,          \* the query keys queryClient.invalidateQueries was given
    toasts,               \* the toasts shown
    notifications,        \* the notifications of the notification store
    userDisconnected,     \* history: disconnect() was the last explicit trigger
    last,                 \* history: the step that led to this state
    lastFrame,            \* history: the frame of that step, if it delivered one
    nframes,              \* history: number of frames delivered (bounds the model)
    selectedSession,      \* BrowserOps: the id of selectedSession, NoSession (null) at first
    activeTab,            \* BrowserOps: activeTab
    panel,                \* the BrowserProxy or CDPConnect instance mounted, or NoPanel
    npanels,              \* number of panel instances mounted so far
    requests,             \* start / stop requests sent, not yet handled by the server
    responses,            \* responses of the server, not yet delivered to the mutation
    registry,             \* TunnelRegistry: the tunnels, by id
    transport,            \* the sessions whose ChannelTransport is connected
    subs,                 \* EventBus: topic -> set of subscribed connections
    queues,               \* EventBus: connection -> its outbound queue
    published,            \* history: the topics of the events published, in order
    offered,              \* history: connection -> events enqueued for it since it last
                          \* sent one or was torn down
    automation,           \* the AutomationPanel instance mounted, or NoAutomation
    ninstances,           \* number of AutomationPanel instances mounted so far
    calls,                \* automation requests and responses under way
    browsers,             \* the automation sessions running on the server
    nbrowsers,            \* number of automation sessions started so far
    nmutations,           \* number of automation mutations started so far
    submitted,            \* history: the scripts submitted, in order
    store,                \* the ids of the cookies the server stores, by session
    selectedIds,          \* CookieTable: selectedIds (empty while no table is mounted)
    selectedCookieIds,    \* BrowserOps: selectedCookieIds
    ncookies              \* number of cookies extracted so far

conn == <<token, mounted, socks, timers, reconnectCount, reconnectTimeoutRef,
          isConnected>>
client == <<lastMessage, invalidated, toasts, notifications>>
ops == <<selectedSession, activeTab, panel, npanels, requests, responses>>
server == <<registry, transport>>
bus == <<subs, queues, published, offered>>
auto == <<automation, ninstances, calls, browsers, nbrowsers, nmutations, submitted>>
cookie == <<store, selectedIds, selectedCookieIds, ncookies>>
page == <<auto, cookie>>
vars == <<conn, client, userDisconnected, last, lastFrame, nframes, ops, server, bus, page>>

\* What `last` records: the handler or operation that ran; for a socket's
\* event the owner of its handlers (for a timer its kind); the close code of
\* a close event (for an open event the retry count before it, for a frame 1
\* when it repeats the frame delivered just before it); and whether a socket
\* or a timer was created, or a line logged.  For a call of the TunnelManager:
\* the error, the tunnel id and whether a tunnel was made or torn down; for a
\* response delivered: the mutation, the panel instance and the outcome.
Step(act, owner, arg, made) == [act |-> act, owner |-> owner, arg |-> arg, made |-> made]

\* --------------------------------------------------------- sockets, timers
One(x) == SetToBag({x})
Socks == BagToSet(socks)
Timers == {timers[i] : i \in DOMAIN timers}

Live(s) == s.st \in {"CONNECTING", "OPEN"}

\* wsRef.current = null: the socket that was in wsRef, if any, is let go of.
unref(ss) ==
    IF \E r \in BagToSet(ss) : r.ref
    THEN LET r == CHOOSE r \in BagToSet(ss) : r.ref
         IN  (ss (-) One(r)) (+) One([r EXCEPT !.ref = FALSE])
    ELSE ss

\* if (wsRef.current) { wsRef.current.close(1000, reason); wsRef.current = null }
\* The socket starts closing and its close event comes later: with code 1000
\* after the closing handshake of an open socket, with 1006 when the
\* connection was not yet established.
closeRef(ss) ==
    IF \E r \in BagToSet(ss) : r.ref
    THEN LET r == CHOOSE r \in BagToSet(ss) : r.ref
         IN  (ss (-) One(r)) (+)
             One([r EXCEPT !.ref = FALSE, !.st = "CLOSING",
                           !.code = IF r.st = "OPEN" THEN CleanClose ELSE 1006])
    ELSE ss

\* if (reconnectTimeoutRef.current) { clearTimeout(...); ... = null }: the
\* tracked timer, if it is still pending, never fires.
clearTracked(ts) == SelectSeq(ts, LAMBDA t : ~t.tracked)

\* reconnectTimeoutRef.current = <another handle>: the timer tracked before,
\* if still pending, stays pending and can no longer be cleared.
untrack(ts) == [i \in DOMAIN ts |-> [ts[i] EXCEPT !.tracked = FALSE]]

\* new WebSocket(buildWebSocketUrl()); wsRef.current = ws.  The token of the
\* URL is the stored one.
newSocket(owner, tok) ==
    [st |-> "CONNECTING", owner |-> owner, tok |-> tok, code |-> 0, ref |-> TRUE]

\* The `disposed` flag of the run of the effect that owns a handler or timer.
disposed(owner) == owner = "old" \/ mounted # "yes"

\* openConnection without the check of the token.
openConnectionNoTokenCheck(isDisposed, ss, tok) ==
    IF isDisposed THEN ss
    ELSE IF \E r \in BagToSet(ss) : r.ref /\ r.st = "OPEN" THEN ss
    ELSE unref(ss) (+) One(newSocket("cur", tok))

\* openConnection of a run of the effect; `isDisposed` is that run's flag.
openConnection(isDisposed, ss, tok) ==
    IF isDisposed THEN ss
    ELSE IF \E r \in BagToSet(ss) : r.ref /\ r.st = "OPEN" THEN ss
    ELSE IF tok = NoToken THEN ss
    ELSE unref(ss) (+) One(newSocket("cur", tok))

\* ------------------------------------------------------------------ frames
\* The event values handleMessage has a case for, one it has none for, and a
\* frame that is no JSON.  `data` stands for the payload: the id or name the
\* texts are built from (for a 'notification' frame "b" is a payload with
\* variant 'destructive').
RecognizedEvents ==
    {"connected", "session.new", "session.lost", "beacon.new", "beacon.checkin",
     "task_completed", "notification", "ping", "pong", "subscribed", "error"}
UnknownEvents == {"tunnel.failed"}
Malformed == [event |-> "<not JSON>", data |-> ""]
Payloads == {"a", "b"}
Frames == [event : RecognizedEvents \cup UnknownEvents, data : Payloads] \cup {Malformed}
NoFrame == [event |-> "", data |-> ""]

\* toast(...) of components/ui/use-toast and addNotification(...) of
\* store/notificationStore: showing, or storing, what is already shown or
\* stored changes nothing.
toast(shown, t) == shown \cup {t}
addNotification(stored, n) == stored \cup {n}

Toast(title, data, variant) == [title |-> title, about |-> data, variant |-> variant]
Notification(type, title, data) == [type |-> type, title |-> title, about |-> data]

\* handleMessage that takes a notification back when the frame comes again.
handleMessageToggle(f, c) ==
    IF f = Malformed THEN c
    ELSE IF f.event \in {"session.new", "session.lost", "beacon.new", "task_completed",
                         "notification"}
    THEN LET n == Notification("info", f.event, f.data)
         IN  [c EXCEPT !.lastMessage = f,
                       !.notifications = IF n \in @ THEN @ \ {n} ELSE @ \cup {n}]
    ELSE [c EXCEPT !.lastMessage = f]

\* The frames handleMessage writes a line to the console for: 'connected',
\* 'error', the default branch and the catch of JSON.parse.
logs(f) == f = Malformed \/ f.event \in {"connected", "error"} \/ f.event \notin RecognizedEvents

\* handleMessage whose cases do nothing but set lastMessage.
handleMessageSilent(f, c) ==
    IF f = Malformed THEN c ELSE [c EXCEPT !.lastMessage = f]

\* handleMessage(event): c is the client state [lastMessage, invalidated,
\* toasts, notifications] and the result the client state after the frame.
handleMessage(f, c) ==
    IF f = Malformed THEN c
    ELSE LET m == [c EXCEPT !.lastMessage = f]
             d == f.data
         IN CASE f.event = "connected" -> m
              [] f.event = "session.new" ->
                   [m EXCEPT !.invalidated = @ \cup {<<"sessions">>, <<"dashboard-stats">>},
                             !.toasts = toast(@, Toast("New Session Connected", d, "default")),
                             !.notifications =
                                 addNotification(@, Notification("session", "New Session", d))]
              [] f.event = "session.lost" ->
                   [m EXCEPT !.invalidated = @ \cup {<<"sessions">>, <<"dashboard-stats">>},
                             !.toasts = toast(@, Toast("Session Disconnected", d, "destructive")),
                             !.notifications =
                                 addNotification(@, Notification("warning", "Session Disconnected", d))]
              [] f.event = "beacon.new" ->
                   [m EXCEPT !.invalidated = @ \cup {<<"beacons">>, <<"dashboard-stats">>},
                             !.toasts = toast(@, Toast("New Beacon", d, "default")),
                             !.notifications =
                                 addNotification(@, Notification("beacon", "New Beacon", d))]
              [] f.event = "beacon.checkin" ->
                   [m EXCEPT !.invalidated = @ \cup {<<"beacons">>, <<"dashboard-stats">>}]
              [] f.event = "task_completed" ->
                   [m EXCEPT !.invalidated = @ \cup {<<"beacon-tasks", d>>},
                             !.toasts = toast(@, Toast("Task Completed", d, "default")),
                             !.notifications =
                                 addNotification(@, Notification("info", "Task Completed", d))]
              [] f.event = "notification" ->
                   [m EXCEPT !.toasts = toast(@, Toast(d, d,
                                                  IF d = "b" THEN "destructive" ELSE "default")),
                             !.notifications =
                                 addNotification(@, Notification(
                                     IF d = "b" THEN "error" ELSE "info", d, d))]
              [] f.event = "ping" -> m
              [] f.event \in {"pong", "subscribed", "error"} -> m
              [] OTHER -> m

\* ----------------------------------------------------------------- tunnels
Sessions == {"s1", "s2"}
NoSession == "none"
\* The local ports a panel can ask for: the defaults of the two panels.
Ports == {1080, 9222}
\* The kind of tunnel a panel starts: BrowserProxy a Socks5 tunnel (startProxy),
\* CDPConnect a Forward tunnel (startCDP).
Kinds == {"proxy", "cdp"}
NoTunnel == 0

\* TunnelManager, from the spec (section 4.1).  The registry is the sequence of
\* the tunnels ever started; a tunnel's id is its index.
Tunnel(session, kind, port, state) ==
    [session |-> session, kind |-> kind, port |-> port, state |-> state]

PortTaken(reg, port) == \E i \in DOMAIN reg : reg[i].state = "Active" /\ reg[i].port = port

\* StartTunnel that does not look at the ports in use.
StartTunnelNoPortCheck(reg, live, session, kind, port) ==
    IF session \notin live
    THEN [ok |-> FALSE, error |-> "SessionUnavailable", tunnelId |-> NoTunnel, reg |-> reg]
    ELSE [ok |-> TRUE, error |-> "", tunnelId |-> Len(reg) + 1,
          reg |-> Append(reg, Tunnel(session, kind, port, "Active"))]

\* StartTunnel(sessionId, kind, localPort, remoteTarget): the result and the
\* registry after it.  `live` are the sessions with a connected transport.
StartTunnel(reg, live, session, kind, port) ==
    IF session \notin live
    THEN [ok |-> FALSE, error |-> "SessionUnavailable", tunnelId |-> NoTunnel, reg |-> reg]
    ELSE IF PortTaken(reg, port)
    THEN [ok |-> FALSE, error |-> "PortInUse", tunnelId |-> NoTunnel, reg |-> reg]
    ELSE [ok |-> TRUE, error |-> "", tunnelId |-> Len(reg) + 1,
          reg |-> Append(reg, Tunnel(session, kind, port, "Active"))]

\* StopTunnel that tears the tunnel down whatever its state.
StopTunnelAlways(reg, id) ==
    IF id \in DOMAIN reg
    THEN [ok |-> TRUE, error |-> "", teardown |-> TRUE,
          reg |-> [reg EXCEPT ![id].state = "Closed"]]
    ELSE [ok |-> FALSE, error |-> "NotFound", teardown |-> FALSE, reg |-> reg]

\* StopTunnel(sessionId, tunnelId): the result, whether the teardown (listener
\* close, ChannelTransport.Close, SubStream close) ran, and the registry after.
StopTunnel(reg, id) ==
    IF id \in DOMAIN reg /\ reg[id].state = "Active"
    THEN [ok |-> TRUE, error |-> "", teardown |-> TRUE,
          reg |-> [reg EXCEPT ![id].state = "Closed"]]
    ELSE IF id \in DOMAIN reg
    THEN [ok |-> TRUE, error |-> "", teardown |-> FALSE, reg |-> reg]
    ELSE [ok |-> FALSE, error |-> "NotFound", teardown |-> FALSE, reg |-> reg]

\* A transport error inside a running relay: the tunnels of the session fail.
failTunnels(reg, session) ==
    [i \in DOMAIN reg |->
        IF reg[i].session = session /\ reg[i].state = "Active"
        THEN [reg[i] EXCEPT !.state = "Failed"] ELSE reg[i]]

\* ------------------------------------------------------------------ panels
\* BrowserProxy and CDPConnect: the state of the instance mounted.  `inst`
\* tells the instances apart; `port` is the local port (port / localPort);
\* `urls` is the tunnel whose derived URLs or config are held (proxyConfig /
\* cdpUrls), NoTunnel for null.
DefaultPort(kind) == IF kind = "proxy" THEN 1080 ELSE 9222
NoPanel ==
    [kind |-> "none", session |-> NoSession, inst |-> 0, port |-> 0, active |-> FALSE,
     tunnelId |-> NoTunnel, urls |-> NoTunnel, startPending |-> FALSE, stopPending |-> FALSE]
Panel(kind, session, inst) ==
    [kind |-> kind, session |-> session, inst |-> inst, port |-> DefaultPort(kind),
     active |-> FALSE, tunnelId |-> NoTunnel, urls |-> NoTunnel,
     startPending |-> FALSE, stopPending |-> FALSE]

\* const isPending = startMutation.isPending || stopMutation.isPending
isPending(p) == p.startPending \/ p.stopPending

\* getApiErrorMessage(error) of services/api: the message the server gave.
getApiErrorMessage(error) == error

Request(op, p) ==
    [op |-> op, kind |-> p.kind, session |-> p.session, port |-> p.port,
     tunnelId |-> p.tunnelId, inst |-> p.inst]
Response(req, r) ==
    [op |-> req.op, kind |-> req.kind, session |-> req.session, port |-> req.port,
     inst |-> req.inst,
     ok |-> r.ok, error |-> r.error,
     tunnelId |-> IF req.op = "start" THEN r.tunnelId ELSE req.tunnelId]

\* ---------------------------------------------------------------- EventBus
\* EventBus, from the spec (section 4.4): topic -> set of connections and a
\* bounded outbound queue per connection.  An event is the number of its
\* publish and its topic; the events of the critical topics are critical.
Connections == {"c1", "c2"}
Topics == {"session.new", "error"}
CriticalTopics == {"error"}
QueueCapacity == 2
Event(n, topic) == [n |-> n, topic |-> topic]
critical(e) == e.topic \in CriticalTopics

removeAt(q, i) == [j \in 1..(Len(q) - 1) |-> IF j < i THEN q[j] ELSE q[j + 1]]

\* enqueue that drops the oldest pending event, critical or not.
enqueueDropOldest(q, e) ==
    IF Len(q) < QueueCapacity THEN Append(q, e) ELSE Append(Tail(q), e)

\* The queue of a connection after `e` is published to it: when the queue is
\* full the oldest non-critical pending event makes room; critical events are
\* kept, so a queue that holds critical events only takes a critical event
\* beyond its capacity and has no room for a non-critical one.
enqueue(q, e) ==
    IF Len(q) < QueueCapacity THEN Append(q, e)
    ELSE IF \E i \in DOMAIN q : ~critical(q[i])
    THEN LET i == CHOOSE i \in DOMAIN q :
                      ~critical(q[i]) /\ \A j \in 1..(i - 1) : critical(q[j])
         IN  Append(removeAt(q, i), e)
    ELSE IF critical(e) THEN Append(q, e) ELSE q

\* audience that is every connection, subscribed or not.
audienceAll(sb, topic) == Connections

\* The connections an event of `topic` is published to.
audience(sb, topic) == sb[topic]

subscribe(sb, c, topic) == [sb EXCEPT ![topic] = @ \cup {c}]
unsubscribe(sb, c, topic) == [sb EXCEPT ![topic] = @ \ {c}]
teardown(sb, c) == [t \in Topics |-> sb[t] \ {c}]

\* ---------------------------------------------------------- AutomationPanel
\* The state of the AutomationPanel instance mounted.  `pending` holds the
\* mutations of the instance that are pending.
NoAutomationId == 0
Scripts == {"1+1", "throw"}
NoAutomation ==
    [inst |-> 0, automationId |-> NoAutomationId, currentUrl |-> "", screenshot |-> "null",
     pageTitle |-> "", jsHistory |-> <<>>, pending |-> {}]
Automation(inst) == [NoAutomation EXCEPT !.inst = inst]

JsHistoryEntry(type, text) == [type |-> type, text |-> text]

\* What the browser of the server answers to a script: data.error or
\* data.result.
evaluate(script) ==
    IF script = "throw" THEN [error |-> "Error", result |-> ""]
    ELSE [error |-> "", result |-> "2"]

\* A call of browserOpsApi by the mutation `op` of instance `a`.
Call(op, a, arg) ==
    [op |-> op, inst |-> a.inst, id |-> a.automationId, arg |-> arg, stage |-> "request",
     ok |-> FALSE, data |-> ""]

\* canMutate that lets a mutation start while it is pending.
canMutateAlways(a, op) == TRUE

\* disabled={<op>Mutation.isPending} on the controls of the mutation `op`.
canMutate(a, op) == op \notin a.pending

\* ------------------------------------------------------------- CookieTable
\* The CookieTable is rendered, without a key, while a session is selected
\* and the tab is 'cookies'.
tableMounted == selectedSession # NoSession /\ activeTab = "cookies"

\* const cookies = storedCookies?.cookies || extractedCookies: the ids of the
\* cookies listed for the selected session.
cookies == IF selectedSession = NoSession THEN {} ELSE store[selectedSession]

\* The effect of the CookieTable: onSelectionChange(Array.from(selectedIds)),
\* which is handleSelectionChange of the page; the value of selectedCookieIds.
onSelectionChange(ids) == ids

allSelected == cookies # {} /\ cookies \subseteq selectedIds

Init ==
    /\ token \in Tokens \cup {NoToken}
    /\ mounted = "never"
    /\ socks = EmptyBag
    /\ timers = <<>>
    /\ reconnectCount = 0
    /\ reconnectTimeoutRef = "null"
    /\ isConnected = FALSE
    /\ userDisconnected = FALSE
    /\ last = Step("init", "", 0, "")
    /\ lastMessage = NoFrame
    /\ invalidated = {}
    /\ toasts = {}
    /\ notifications = {}
    /\ lastFrame = NoFrame
    /\ nframes = 0
    /\ selectedSession = NoSession
    /\ activeTab = "cookies"
    /\ panel = NoPanel
    /\ npanels = 0
    /\ requests = {}
    /\ responses = {}
    /\ registry = <<>>
    /\ transport = Sessions
    /\ subs = [t \in Topics |-> {}]
    /\ queues = [c \in Connections |-> <<>>]
    /\ published = <<>>
    /\ offered = [c \in Connections |-> 0]
    /\ automation = NoAutomation
    /\ ninstances = 0
    /\ calls = {}
    /\ browsers = {}
    /\ nbrowsers = 0
    /\ nmutations = 0
    /\ submitted = <<>>
    /\ store = [s \in Sessions |-> {}]
    /\ selectedIds = {}
    /\ selectedCookieIds = {}
    /\ ncookies = 0

\* ws.onopen, the same for a socket of the effect and one of connect().
onopen(s) ==
    /\ socks' = (socks (-) One(s)) (+) One([s EXCEPT !.st = "OPEN"])
    /\ isConnected' = TRUE
    /\ reconnectCount' = 0
    /\ last' = Step("onopen", s.owner, reconnectCount, "")
    /\ UNCHANGED <<client, nframes, ops, server>> /\ lastFrame' = NoFrame /\ UNCHANGED <<bus, page>>
    /\ UNCHANGED <<token, mounted, timers, reconnectTimeoutRef, userDisconnected>>

\* retries with the bound compared by <= : one retry too many.
retriesOffByOne(owner, code) ==
    /\ owner # "manual"
    /\ ~(owner = "old" \/ mounted # "yes")
    /\ code # CleanClose
    /\ reconnectCount <= reconnectAttempts

\* The condition of the retry branch of the effect's ws.onclose; connect()'s
\* ws.onclose has no such branch.
retries(owner, code) ==
    /\ owner # "manual"
    /\ ~disposed(owner)
    /\ code # CleanClose
    /\ reconnectCount < reconnectAttempts

\* retryTimer with the delay doubled at every attempt.
retryTimerBackoff(owner, n) ==
    [owner |-> owner, delay |-> reconnectInterval * 2 ^ (n - 1), kind |-> "retry", n |-> n,
     tracked |-> TRUE]

\* reconnectTimeoutRef.current = setTimeout(openConnection, reconnectInterval);
\* n is the attempt number the branch logs.
retryTimer(owner, n) ==
    [owner |-> owner, delay |-> reconnectInterval, kind |-> "retry", n |-> n,
     tracked |-> TRUE]

\* ws.onclose of socket s, delivered with close code `code`.
onclose(s, code, act) ==
    /\ socks' = unref(socks (-) One(s))
    /\ isConnected' = FALSE
    /\ IF retries(s.owner, code)
       THEN /\ Len(timers) < MaxTimers
            /\ reconnectCount' = reconnectCount + 1
            /\ timers' = Append(untrack(timers), retryTimer(s.owner, reconnectCount + 1))
            /\ reconnectTimeoutRef' = "handle"
            /\ last' = Step(act, s.owner, code, "timer")
       ELSE /\ last' = Step(act, s.owner, code, "")
            /\ UNCHANGED <<reconnectCount, timers, reconnectTimeoutRef>>
    /\ UNCHANGED <<client, nframes, ops, server>> /\ lastFrame' = NoFrame /\ UNCHANGED <<bus, page>>
    /\ UNCHANGED <<token, mounted, userDisconnected>>

\* ------------------------------------------------------- browser's events
\* The handshake of a connecting socket succeeds.
SocketOpen(s) ==
    /\ s.st = "CONNECTING"
    /\ onopen(s)

\* The handshake of a connecting socket fails: a close event with code 1006.
ConnectFail(s) ==
    /\ s.st = "CONNECTING"
    /\ onclose(s, 1006, "ConnectFail")

\* The server or the network closes an open socket.
ServerClose(s, code) ==
    /\ s.st = "OPEN"
    /\ onclose(s, code, "ServerClose")

\* The close event of a socket the hook closed with ws.close(1000, ...).
CloseEvent(s) ==
    /\ s.st = "CLOSING"
    /\ onclose(s, s.code, "CloseEvent")

\* The timers that may fire next: a timer set earlier with the same or a
\* shorter delay fires first.
due(ts) == {i \in DOMAIN ts : \A j \in 1..(i - 1) : ts[j].delay > ts[i].delay}

remove(ts, i) == [j \in 1..(Len(ts) - 1) |-> IF j < i THEN ts[j] ELSE ts[j + 1]]

\* A timer fires: openConnection of the run of the effect that set it.  The
\* callback leaves reconnectTimeoutRef holding the stale handle.
TimerFire(i) ==
    /\ i \in due(timers)
    /\ BagCardinality(socks) < MaxSockets
    /\ timers' = remove(timers, i)
    /\ socks' = openConnection(disposed(timers[i].owner), socks, token)
    /\ last' = Step("TimerFire", timers[i].kind, 0, IF socks' # socks THEN "socket" ELSE "")
    /\ UNCHANGED <<client, nframes, ops, server>> /\ lastFrame' = NoFrame /\ UNCHANGED <<bus, page>>
    /\ UNCHANGED <<token, mounted, reconnectCount, reconnectTimeoutRef,
                   isConnected, userDisconnected>>

\* A message event on an open socket.  ws.onmessage is handleMessage on a
\* socket of the effect; connect() sets no onmessage, so the frame is dropped.
Receive(s, f) ==
    /\ s.st = "OPEN"
    /\ nframes < MaxFrames
    /\ nframes' = nframes + 1
    /\ lastFrame' = f /\ UNCHANGED <<bus, page>>
    /\ last' = Step("Receive", s.owner,
                    IF last.act = "Receive" /\ last.owner = s.owner /\ lastFrame = f
                    THEN 1 ELSE 0,
                    IF s.owner # "manual" /\ logs(f) THEN "log" ELSE "")
    /\ IF s.owner = "manual"
       THEN UNCHANGED client
       ELSE LET c == handleMessage(f, [lastMessage |-> lastMessage,
                                       invalidated |-> invalidated,
                                       toasts |-> toasts,
                                       notifications |-> notifications])
            IN  /\ lastMessage' = c.lastMessage
                /\ invalidated' = c.invalidated
                /\ toasts' = c.toasts
                /\ notifications' = c.notifications
    /\ UNCHANGED <<conn, userDisconnected, ops, server>>

\* ------------------------------------------------------------- the effect
\* A run of the effect that comes after this one makes this one's handlers
\* and timers those of an earlier run.
old(x) == IF x.owner = "cur" THEN [x EXCEPT !.owner = "old"] ELSE x

agedSocks(b) ==
    LET S == BagToSet(b)
        T == {old(x) : x \in S}
        RECURSIVE sum(_)
        sum(X) == IF X = {} THEN 0
                  ELSE LET x == CHOOSE x \in X : TRUE IN b[x] + sum(X \ {x})
    IN  [y \in T |-> sum({x \in S : old(x) = y})]

agedTimers(ts) == [i \in DOMAIN ts |-> old(ts[i])]

\* The connection effect runs (autoConnect is true): a mount, the second run
\* of React.StrictMode, or a re-run after a change of its dependencies.
Mount ==
    /\ mounted # "yes"
    /\ BagCardinality(socks) < MaxSockets
    /\ mounted' = "yes"
    /\ socks' = openConnection(FALSE, agedSocks(socks), token)
    /\ timers' = agedTimers(timers)
    /\ userDisconnected' = FALSE
    /\ last' = Step("Mount", "", 0, IF token # NoToken THEN "socket" ELSE "")
    /\ UNCHANGED <<client, nframes, ops, server>> /\ lastFrame' = NoFrame /\ UNCHANGED <<bus, page>>
    /\ UNCHANGED <<token, reconnectCount, reconnectTimeoutRef, isConnected>>

\* The effect's cleanup.
Unmount ==
    /\ mounted = "yes"
    /\ mounted' = "no"
    /\ timers' = clearTracked(timers)
    /\ reconnectTimeoutRef' = "null"
    /\ socks' = closeRef(socks)
    /\ isConnected' = FALSE
    /\ last' = Step("Unmount", "", 0, "")
    /\ UNCHANGED <<client, nframes, ops, server>> /\ lastFrame' = NoFrame /\ UNCHANGED <<bus, page>>
    /\ UNCHANGED <<token, reconnectCount, userDisconnected>>

\* setTimeout(openConnection, 100) of handleStorageChange: its handle is kept
\* nowhere.
tokenTimer ==
    [owner |-> "cur", delay |-> tokenChangeDelay, kind |-> "token", n |-> 0,
     tracked |-> FALSE]

\* handleStorageChange for key 'sliverui-auth': another tab wrote the token.
StorageChange(newTok) ==
    /\ mounted = "yes"
    /\ Len(timers) < MaxTimers
    /\ token' = newTok
    /\ reconnectTimeoutRef' = "null"
    /\ socks' = closeRef(socks)
    /\ isConnected' = FALSE
    /\ IF newTok # NoToken
       THEN /\ reconnectCount' = 0
            /\ timers' = Append(clearTracked(timers), tokenTimer)
       ELSE /\ timers' = clearTracked(timers)
            /\ UNCHANGED reconnectCount
    /\ userDisconnected' = FALSE
    /\ last' = Step("StorageChange", "", 0, IF newTok # NoToken THEN "timer" ELSE "")
    /\ UNCHANGED <<client, nframes, ops, server>> /\ lastFrame' = NoFrame /\ UNCHANGED <<bus, page>>
    /\ UNCHANGED mounted

\* This tab writes the token (login, refresh, logout): no storage event is
\* delivered to the window that made the change.
SetTokenLocal(newTok) ==
    /\ newTok # token
    /\ token' = newTok
    /\ userDisconnected' = FALSE
    /\ last' = Step("SetTokenLocal", "", 0, "")
    /\ UNCHANGED <<client, nframes, ops, server>> /\ lastFrame' = NoFrame /\ UNCHANGED <<bus, page>>
    /\ UNCHANGED <<mounted, socks, timers, reconnectCount, reconnectTimeoutRef,
                   isConnected>>

\* ------------------------------------------------------------ the hook's API
connect ==
    /\ mounted = "yes"
    /\ BagCardinality(socks) < MaxSockets
    /\ reconnectCount' = 0
    /\ IF token = NoToken
       THEN socks' = closeRef(socks)
       ELSE socks' = closeRef(socks) (+) One(newSocket("manual", token))
    /\ userDisconnected' = FALSE
    /\ last' = Step("connect", "", 0, IF token # NoToken THEN "socket" ELSE "")
    /\ UNCHANGED <<client, nframes, ops, server>> /\ lastFrame' = NoFrame /\ UNCHANGED <<bus, page>>
    /\ UNCHANGED <<token, mounted, timers, reconnectTimeoutRef, isConnected>>

disconnect ==
    /\ mounted = "yes"
    /\ timers' = clearTracked(timers)
    /\ reconnectTimeoutRef' = "null"
    /\ socks' = closeRef(socks)
    /\ isConnected' = FALSE
    /\ userDisconnected' = TRUE
    /\ last' = Step("disconnect", "", 0, "")
    /\ UNCHANGED <<client, nframes, ops, server>> /\ lastFrame' = NoFrame /\ UNCHANGED <<bus, page>>
    /\ UNCHANGED <<token, mounted, reconnectCount>>

\* ---------------------------------------------------- BrowserOps, panels
\* A click on a session of the list.
SelectSession(session) ==
    /\ selectedSession' = session
    /\ activeTab' = "cookies"
    /\ panel' = NoPanel
    /\ automation' = NoAutomation
    /\ IF tableMounted
       THEN UNCHANGED <<selectedIds, selectedCookieIds>>
       ELSE selectedIds' = {} /\ selectedCookieIds' = onSelectionChange({})
    /\ last' = Step("SelectSession", "", 0, "")
    /\ lastFrame' = NoFrame
    /\ UNCHANGED <<bus, ninstances, calls, browsers, nbrowsers, nmutations, submitted, store,
                   ncookies>>
    /\ UNCHANGED <<conn, client, userDisconnected, nframes, npanels, requests, responses,
                   server>>

\* A click on a tab.  The content of a tab is mounted while the tab is the
\* active one: leaving the tab of a panel unmounts the panel, entering it
\* mounts a new instance.  A CookieTable that is mounted starts with an empty
\* selection and its effect reports it to the page at once.
SetActiveTab(tab) ==
    /\ selectedSession # NoSession
    /\ activeTab' = tab
    /\ IF tab = activeTab
       THEN UNCHANGED <<panel, npanels>>
       ELSE IF tab \in Kinds
       THEN /\ npanels < MaxPanels
            /\ npanels' = npanels + 1
            /\ panel' = Panel(tab, selectedSession, npanels + 1)
       ELSE /\ panel' = NoPanel
            /\ UNCHANGED npanels
    /\ IF tab = activeTab
       THEN UNCHANGED <<automation, ninstances>>
       ELSE IF tab = "automation"
       THEN /\ ninstances < MaxInstances
            /\ ninstances' = ninstances + 1
            /\ automation' = Automation(ninstances + 1)
       ELSE /\ automation' = NoAutomation
            /\ UNCHANGED ninstances
    /\ IF tab = activeTab
       THEN UNCHANGED <<selectedIds, selectedCookieIds>>
       ELSE IF tab = "cookies"
       THEN selectedIds' = {} /\ selectedCookieIds' = onSelectionChange({})
       ELSE selectedIds' = {} /\ UNCHANGED selectedCookieIds
    /\ last' = Step("SetActiveTab", "", 0, "")
    /\ lastFrame' = NoFrame
    /\ UNCHANGED <<bus, calls, browsers, nbrowsers, nmutations, submitted, store, ncookies>>
    /\ UNCHANGED <<conn, client, userDisconnected, nframes, selectedSession, requests,
                   responses, server>>

\* The port input, disabled while the panel is active or a mutation pending.
SetPort(port) ==
    /\ panel # NoPanel
    /\ ~(panel.active \/ isPending(panel))
    /\ panel' = [panel EXCEPT !.port = port]
    /\ last' = Step("SetPort", "", 0, "")
    /\ lastFrame' = NoFrame /\ UNCHANGED <<bus, page>>
    /\ UNCHANGED <<conn, client, userDisconnected, nframes, selectedSession, activeTab,
                   npanels, requests, responses, server>>

\* handleToggle through the button, disabled while a mutation is pending:
\* stopMutation.mutate() when active, startMutation.mutate() otherwise.
handleToggle ==
    /\ panel # NoPanel
    /\ ~isPending(panel)
    /\ Cardinality(requests) + Cardinality(responses) < MaxInFlight
    /\ IF panel.active
       THEN /\ panel' = [panel EXCEPT !.stopPending = TRUE]
            /\ IF panel.tunnelId = NoTunnel
               THEN /\ responses' = responses \cup
                          {Response(Request("stop", panel),
                                    [ok |-> FALSE, error |-> "No active tunnel"])}
                    /\ UNCHANGED requests
               ELSE /\ requests' = requests \cup {Request("stop", panel)}
                    /\ UNCHANGED responses
            /\ last' = Step("handleToggle", "stop", panel.tunnelId, "request")
       ELSE /\ panel' = [panel EXCEPT !.startPending = TRUE]
            /\ requests' = requests \cup {Request("start", panel)}
            /\ UNCHANGED responses
            /\ last' = Step("handleToggle", "start", 0, "request")
    /\ lastFrame' = NoFrame /\ UNCHANGED <<bus, page>>
    /\ UNCHANGED <<conn, client, userDisconnected, nframes, selectedSession, activeTab,
                   npanels, server>>

\* The server handles a start request of a panel.
ServerStart(req) ==
    /\ req \in requests /\ req.op = "start"
    /\ LET r == StartTunnel(registry, transport, req.session, req.kind, req.port)
       IN  /\ Len(r.reg) <= MaxTunnels
           /\ registry' = r.reg
           /\ responses' = responses \cup {Response(req, r)}
           /\ last' = Step("StartTunnel", r.error, r.tunnelId, IF r.ok THEN "tunnel" ELSE "")
    /\ requests' = requests \ {req}
    /\ lastFrame' = NoFrame /\ UNCHANGED <<bus, page>>
    /\ UNCHANGED <<conn, client, userDisconnected, nframes, selectedSession, activeTab,
                   panel, npanels, transport>>

\* The server handles a stop request of a panel.
ServerStop(req) ==
    /\ req \in requests /\ req.op = "stop"
    /\ LET r == StopTunnel(registry, req.tunnelId)
       IN  /\ registry' = r.reg
           /\ responses' = responses \cup {Response(req, r)}
           /\ last' = Step("StopTunnel", r.error, req.tunnelId,
                           IF r.teardown THEN "teardown" ELSE "")
    /\ requests' = requests \ {req}
    /\ lastFrame' = NoFrame /\ UNCHANGED <<bus, page>>
    /\ UNCHANGED <<conn, client, userDisconnected, nframes, selectedSession, activeTab,
                   panel, npanels, transport>>

\* The stop request of a panel fails before the TunnelManager has handled it
\* (the HTTP call is rejected): the mutation gets an error, no tunnel changes.
StopFails(req) ==
    /\ req \in requests /\ req.op = "stop"
    /\ responses' = responses \cup
           {Response(req, [ok |-> FALSE, error |-> "RequestFailed"])}
    /\ requests' = requests \ {req}
    /\ last' = Step("StopTunnel", "RequestFailed", req.tunnelId, "")
    /\ lastFrame' = NoFrame /\ UNCHANGED <<bus, page>>
    /\ UNCHANGED <<conn, client, userDisconnected, nframes, selectedSession, activeTab,
                   panel, npanels, server>>

\* StartTunnel and StopTunnel called by any client of the server.
ApiStart(session, kind, port) ==
    /\ LET r == StartTunnel(registry, transport, session, kind, port)
       IN  /\ Len(r.reg) <= MaxCalls
           /\ registry' = r.reg
           /\ last' = Step("StartTunnel", r.error, r.tunnelId, IF r.ok THEN "tunnel" ELSE "")
    /\ lastFrame' = NoFrame /\ UNCHANGED <<bus, page>>
    /\ UNCHANGED <<conn, client, userDisconnected, nframes, ops, transport>>

ApiStop(id) ==
    /\ id \in DOMAIN registry
    /\ LET r == StopTunnel(registry, id)
       IN  /\ registry' = r.reg
           /\ last' = Step("StopTunnel", r.error, id, IF r.teardown THEN "teardown" ELSE "")
    /\ lastFrame' = NoFrame /\ UNCHANGED <<bus, page>>
    /\ UNCHANGED <<conn, client, userDisconnected, nframes, ops, transport>>

\* The transport of a session is lost (the session is dead for good).
TransportDown(session) ==
    /\ session \in transport
    /\ transport' = transport \ {session}
    /\ registry' = failTunnels(registry, session)
    /\ last' = Step("TransportDown", session, 0, "")
    /\ lastFrame' = NoFrame /\ UNCHANGED <<bus, page>>
    /\ UNCHANGED <<conn, client, userDisconnected, nframes, ops>>

\* startSettled that takes any response for a success.
startSettledAlwaysActive(p, resp) ==
    IF p.inst # resp.inst THEN p
    ELSE [p EXCEPT !.active = TRUE, !.tunnelId = resp.tunnelId, !.urls = resp.tunnelId,
                   !.startPending = FALSE]

\* onSuccess / onError of the start mutation of instance `p` (the state
\* setters do nothing once the instance is unmounted).
startSettled(p, resp) ==
    IF p.inst # resp.inst THEN p
    ELSE IF resp.ok
    THEN [p EXCEPT !.active = TRUE, !.tunnelId = resp.tunnelId, !.urls = resp.tunnelId,
                   !.startPending = FALSE]
    ELSE [p EXCEPT !.startPending = FALSE]

\* stopSettled that clears the active flag whatever the outcome.
stopSettledClearsFlag(p, resp) ==
    IF p.inst # resp.inst THEN p
    ELSE IF resp.ok
    THEN [p EXCEPT !.active = FALSE, !.tunnelId = NoTunnel, !.urls = NoTunnel,
                   !.stopPending = FALSE]
    ELSE [p EXCEPT !.active = FALSE, !.stopPending = FALSE]

\* onSuccess / onError of the stop mutation.
stopSettled(p, resp) ==
    IF p.inst # resp.inst THEN p
    ELSE IF resp.ok
    THEN [p EXCEPT !.active = FALSE, !.tunnelId = NoTunnel, !.urls = NoTunnel,
                   !.stopPending = FALSE]
    ELSE [p EXCEPT !.stopPending = FALSE]

\* The toast of onSuccess / onError.
settledToast(resp) ==
    IF resp.ok
    THEN Toast(<<resp.kind, resp.op, "ok">>, "", "default")
    ELSE Toast(<<resp.kind, resp.op, "failed">>, getApiErrorMessage(resp.error), "destructive")

\* A response reaches its mutation: onSuccess or onError runs.
Deliver(resp) ==
    /\ resp \in responses
    /\ responses' = responses \ {resp}
    /\ panel' = IF resp.op = "start" THEN startSettled(panel, resp)
                ELSE stopSettled(panel, resp)
    /\ toasts' = toast(toasts, settledToast(resp))
    /\ last' = Step("Deliver", resp.op, resp.inst, IF resp.ok THEN "ok" ELSE "error")
    /\ lastFrame' = NoFrame /\ UNCHANGED <<bus, page>>
    /\ UNCHANGED <<conn, lastMessage, invalidated, notifications, userDisconnected, nframes,
                   selectedSession, activeTab, npanels, requests, server>>

\* Subscribe(connectionId, topic).
Subscribe(c, topic) ==
    /\ subs' = subscribe(subs, c, topic)
    /\ last' = Step("Subscribe", c, 0, IF c \in subs[topic] THEN "" ELSE "added")
    /\ lastFrame' = NoFrame /\ UNCHANGED page
    /\ UNCHANGED <<conn, client, userDisconnected, nframes, ops, server, queues, published,
                   offered>>

\* Unsubscribe(connectionId, topic).
Unsubscribe(c, topic) ==
    /\ subs' = unsubscribe(subs, c, topic)
    /\ last' = Step("Unsubscribe", c, 0, IF c \in subs[topic] THEN "removed" ELSE "")
    /\ lastFrame' = NoFrame /\ UNCHANGED page
    /\ UNCHANGED <<conn, client, userDisconnected, nframes, ops, server, queues, published,
                   offered>>

\* The teardown of a connection: it leaves every topic, its sender task is
\* cancelled and its queue discarded.
Teardown(c) ==
    /\ subs' = teardown(subs, c)
    /\ queues' = [queues EXCEPT ![c] = <<>>]
    /\ last' = Step("Teardown", c, 0,
                    IF queues[c] # <<>> \/ \E t \in Topics : c \in subs[t]
                    THEN "removed" ELSE "")
    /\ offered' = [offered EXCEPT ![c] = 0]
    /\ lastFrame' = NoFrame /\ UNCHANGED page
    /\ UNCHANGED <<conn, client, userDisconnected, nframes, ops, server, published>>

\* Publish(topic, payload): the event is enqueued for every connection
\* subscribed to the topic, whatever the state of the queues.
Publish(topic) ==
    /\ Len(published) < MaxPublish
    /\ LET e == Event(Len(published) + 1, topic)
           to == audience(subs, topic)
       IN  /\ queues' = [c \in Connections |->
                            IF c \in to THEN enqueue(queues[c], e) ELSE queues[c]]
           /\ offered' = [c \in Connections |->
                             IF c \in to THEN offered[c] + 1 ELSE offered[c]]
           /\ published' = Append(published, topic)
           /\ last' = Step("Publish", topic, e.n, "")
    /\ lastFrame' = NoFrame /\ UNCHANGED page
    /\ UNCHANGED <<conn, client, userDisconnected, nframes, ops, server, subs>>

\* The sender task of a connection sends the head of its queue.
Dequeue(c) ==
    /\ queues[c] # <<>>
    /\ queues' = [queues EXCEPT ![c] = Tail(@)]
    /\ offered' = [offered EXCEPT ![c] = 0]
    /\ last' = Step("Dequeue", c, Head(queues[c]).n, "")
    /\ lastFrame' = NoFrame /\ UNCHANGED page
    /\ UNCHANGED <<conn, client, userDisconnected, nframes, ops, server, subs, published>>

\* A control of the AutomationPanel starts the mutation `op`: the Start button
\* (shown while inactive), or Navigate, Screenshot, Get Cookies, Run and Stop
\* (shown while active); each is disabled while its own mutation is pending.
\* Start takes the initial URL, if one was typed, Navigate the URL of the
\* input, Run the script typed.
mutate(op, arg) ==
    /\ automation # NoAutomation
    /\ canMutate(automation, op)
    /\ Cardinality(calls) < MaxUnderWay
    /\ nmutations < MaxMutations
    /\ nmutations' = nmutations + 1
    /\ IF op = "start" THEN automation.automationId = NoAutomationId /\ arg \in {"", "url"}
       ELSE automation.automationId # NoAutomationId
    /\ op = "navigate" => arg = automation.currentUrl /\ arg # ""
    /\ op = "executeJs" <=> arg \in Scripts
    /\ op \in {"screenshot", "cookies", "stop"} => arg = ""
    /\ IF op = "executeJs"
       THEN Len(submitted) < MaxScripts /\ submitted' = Append(submitted, arg)
       ELSE UNCHANGED submitted
    /\ automation' = [automation EXCEPT !.pending = @ \cup {op}]
    /\ calls' = calls \cup {Call(op, automation, arg)}
    /\ last' = Step("mutate", op, automation.automationId, "request")
    /\ lastFrame' = NoFrame
    /\ UNCHANGED <<conn, client, userDisconnected, nframes, ops, server, bus, ninstances,
                   browsers, nbrowsers, cookie>>

\* The URL input of the active panel, disabled while a navigation is pending.
setCurrentUrl(url) ==
    /\ automation.automationId # NoAutomationId
    /\ canMutate(automation, "navigate")
    /\ automation' = [automation EXCEPT !.currentUrl = url]
    /\ last' = Step("setCurrentUrl", "", 0, "")
    /\ lastFrame' = NoFrame
    /\ UNCHANGED <<conn, client, userDisconnected, nframes, ops, server, bus, ninstances,
                   calls, browsers, nbrowsers, nmutations, submitted, cookie>>

\* The answer of the server to a call: a start opens an automation session
\* and, given an initial URL, loads the page;
\* the other calls succeed on a session that is running and fail otherwise; a
\* stop ends the session.
answer(c, running, n) ==
    IF c.op = "start"
    THEN [c EXCEPT !.stage = "response", !.ok = TRUE, !.id = n + 1, !.data = c.arg]
    ELSE IF c.id \notin running THEN [c EXCEPT !.stage = "response", !.ok = FALSE]
    ELSE [c EXCEPT !.stage = "response", !.ok = TRUE,
                   !.data = IF c.op = "executeJs" THEN c.arg ELSE ""]

\* The server handles a call.
ServerAutomation(c) ==
    /\ c \in calls /\ c.stage = "request"
    /\ c.op = "start" => nbrowsers < MaxBrowsers
    /\ calls' = (calls \ {c}) \cup {answer(c, browsers, nbrowsers)}
    /\ nbrowsers' = IF c.op = "start" THEN nbrowsers + 1 ELSE nbrowsers
    /\ browsers' = IF c.op = "start" THEN browsers \cup {nbrowsers + 1}
                   ELSE IF c.op = "stop" THEN browsers \ {c.id}
                   ELSE browsers
    /\ last' = Step("ServerAutomation", c.op, c.id, "")
    /\ lastFrame' = NoFrame
    /\ UNCHANGED <<conn, client, userDisconnected, nframes, ops, server, bus, automation,
                   ninstances, nmutations, submitted, cookie>>

\* resultText of executeJsMutation.onSuccess.
resultText(result) == IF result = "" THEN "undefined" ELSE result

\* onSuccess / onError of the mutation of call `c` on the instance `a` (the
\* state setters do nothing once the instance is unmounted).
settled(a, c) ==
    IF a.inst # c.inst THEN a
    ELSE LET b == [a EXCEPT !.pending = @ \ {c.op}]
         IN CASE c.op = "start" /\ c.ok /\ c.data = "" ->
                   [b EXCEPT !.automationId = c.id]
              [] c.op = "start" /\ c.ok /\ c.data # "" ->
                   [b EXCEPT !.automationId = c.id, !.screenshot = "image",
                             !.pageTitle = "title", !.currentUrl = "url"]
              [] c.op = "navigate" /\ c.ok ->
                   [b EXCEPT !.pageTitle = "title", !.currentUrl = "url",
                             !.screenshot = "image"]
              [] c.op = "screenshot" /\ c.ok ->
                   [b EXCEPT !.screenshot = "image"]
              [] c.op = "executeJs" /\ c.ok ->
                   LET r == evaluate(c.data)
                   IN  [b EXCEPT !.jsHistory =
                           @ \o <<JsHistoryEntry("input", c.arg),
                                  IF r.error # ""
                                  THEN JsHistoryEntry("error", r.error)
                                  ELSE JsHistoryEntry("output", resultText(r.result))>>]
              [] c.op = "executeJs" /\ ~c.ok ->
                   [b EXCEPT !.jsHistory =
                           @ \o <<JsHistoryEntry("input", c.arg),
                                  JsHistoryEntry("error", getApiErrorMessage("failed"))>>]
              [] c.op = "stop" /\ c.ok ->
                   [b EXCEPT !.automationId = NoAutomationId, !.screenshot = "null",
                             !.pageTitle = "", !.currentUrl = "", !.jsHistory = <<>>]
              [] OTHER -> b

\* The toast of onSuccess / onError; the execute-JS mutation shows none.
automationToast(shown, c) ==
    IF c.op = "executeJs" THEN shown
    ELSE toast(shown, Toast(<<"automation", c.op, IF c.ok THEN "ok" ELSE "failed">>,
                            IF c.ok THEN "" ELSE getApiErrorMessage("failed"),
                            IF c.ok THEN "default" ELSE "destructive"))

\* A response reaches its mutation.
Settle(c) ==
    /\ c \in calls /\ c.stage = "response"
    /\ calls' = calls \ {c}
    /\ automation' = settled(automation, c)
    /\ toasts' = automationToast(toasts, c)
    /\ last' = Step("Settle", c.op, c.inst, IF c.ok THEN "ok" ELSE "error")
    /\ lastFrame' = NoFrame
    /\ UNCHANGED <<conn, lastMessage, invalidated, notifications, userDisconnected, nframes,
                   ops, server, bus, ninstances, browsers, nbrowsers, nmutations, submitted,
                   cookie>>

\* toggleRow(id) on a row of the table.
toggleRow(id) ==
    /\ tableMounted
    /\ id \in cookies
    /\ selectedIds' = IF id \in selectedIds THEN selectedIds \ {id} ELSE selectedIds \cup {id}
    /\ selectedCookieIds' = onSelectionChange(selectedIds')
    /\ last' = Step("toggleRow", "", id, "")
    /\ lastFrame' = NoFrame
    /\ UNCHANGED <<conn, client, userDisconnected, nframes, ops, server, bus, auto, store,
                   ncookies>>

\* toggleAll on the header of the table.
toggleAll ==
    /\ tableMounted
    /\ selectedIds' = IF allSelected THEN {} ELSE cookies
    /\ selectedCookieIds' = onSelectionChange(selectedIds')
    /\ last' = Step("toggleAll", "", 0, "")
    /\ lastFrame' = NoFrame
    /\ UNCHANGED <<conn, client, userDisconnected, nframes, ops, server, bus, auto, store,
                   ncookies>>

\* The CookieExtractor has extracted a cookie of the selected session: the
\* server stores it under a new id and handleExtracted refetches the list.
handleExtracted ==
    /\ tableMounted
    /\ ncookies < MaxCookies
    /\ ncookies' = ncookies + 1
    /\ store' = [store EXCEPT ![selectedSession] = @ \cup {ncookies + 1}]
    /\ toasts' = toast(toasts, Toast(<<"cookies", "extract", "ok">>, "", "default"))
    /\ last' = Step("handleExtracted", selectedSession, ncookies + 1, "")
    /\ lastFrame' = NoFrame
    /\ UNCHANGED <<conn, lastMessage, invalidated, notifications, userDisconnected, nframes,
                   ops, server, bus, auto, selectedIds, selectedCookieIds>>

\* handleDelete confirmed and deleteMutation settled: the server deletes all
\* cookies of the session, onSuccess empties the selection and onDelete
\* refetches the list.
deleteCookies ==
    /\ tableMounted
    /\ store' = [store EXCEPT ![selectedSession] = {}]
    /\ selectedIds' = {}
    /\ selectedCookieIds' = onSelectionChange({})
    /\ toasts' = toast(toasts, Toast(<<"cookies", "delete", "ok">>, "", "default"))
    /\ last' = Step("deleteCookies", selectedSession, 0, "")
    /\ lastFrame' = NoFrame
    /\ UNCHANGED <<conn, lastMessage, invalidated, notifications, userDisconnected, nframes,
                   ops, server, bus, auto, ncookies>>

\* send(data): JSON.stringify(data) goes out on the socket of wsRef if that
\* socket is open; otherwise a warning is logged.  The frame is the caller's
\* data and nothing else.
send(data) ==
    /\ mounted = "yes"
    /\ IF \E r \in Socks : r.ref /\ r.st = "OPEN"
       THEN /\ last' = Step("send", "", 0, "frame")
            /\ lastFrame' = [event |-> "send", data |-> data]
       ELSE /\ last' = Step("send", "", 0, "log")
            /\ lastFrame' = NoFrame
    /\ UNCHANGED <<conn, client, nframes, userDisconnected, ops, server, bus, page>>

Next ==
    \/ Mount
    \/ Unmount
    \/ connect
    \/ disconnect
    \/ \E tok \in Tokens \cup {NoToken} : StorageChange(tok)
    \/ \E tok \in Tokens \cup {NoToken} : SetTokenLocal(tok)
    \/ \E s \in Socks : SocketOpen(s)
    \/ \E s \in Socks : ConnectFail(s)
    \/ \E s \in Socks, code \in CloseCodes : ServerClose(s, code)
    \/ \E s \in Socks : CloseEvent(s)
    \/ \E i \in DOMAIN timers : TimerFire(i)
    \/ \E data \in Payloads : send(data)

Spec == Init /\ [][Next]_vars

\* The dispatch of frames: sockets are opened by the effect and by connect(),
\* open sockets receive frames, and the server closes them.
NextDispatch ==
    \/ Mount
    \/ connect
    \/ \E s \in Socks : SocketOpen(s)
    \/ \E s \in Socks, code \in CloseCodes : ServerClose(s, code)
    \/ \E s \in Socks : CloseEvent(s)
    \/ \E s \in Socks, f \in Frames : Receive(s, f)

SpecDispatch == Init /\ [][NextDispatch]_vars

\* The tunnels: the BrowserOps page with its two tunnel panels, and the server.
NextTunnel ==
    \/ \E session \in Sessions : SelectSession(session)
    \/ \E tab \in Kinds \cup {"cookies"} : SetActiveTab(tab)
    \/ \E port \in Ports : SetPort(port)
    \/ handleToggle
    \/ \E req \in requests : ServerStart(req)
    \/ \E req \in requests : ServerStop(req)
    \/ \E resp \in responses : Deliver(resp)
    \/ \E session \in Sessions : TransportDown(session)

\* Where the hook takes no step: it stays unmounted, with no token stored.
InitUnmounted == Init /\ token = NoToken

SpecTunnel == InitUnmounted /\ [][NextTunnel]_vars

\* The panels with stop requests that can fail on their way to the server.
NextPanel ==
    \/ \E session \in Sessions : SelectSession(session)
    \/ \E tab \in Kinds \cup {"cookies"} : SetActiveTab(tab)
    \/ handleToggle
    \/ \E req \in requests : ServerStart(req)
    \/ \E req \in requests : ServerStop(req)
    \/ \E req \in requests : StopFails(req)
    \/ \E resp \in responses : Deliver(resp)

SpecPanel == InitUnmounted /\ [][NextPanel]_vars

\* The AutomationPanel of the selected session, and the server behind it.
AutomationOps == {"start", "navigate", "screenshot", "cookies", "executeJs", "stop"}

NextAutomation ==
    \/ SelectSession("s1")
    \/ \E tab \in {"automation", "cookies"} : SetActiveTab(tab)
    \/ \E op \in AutomationOps, arg \in Scripts \cup {"", "url"} : mutate(op, arg)
    \/ \E url \in {"", "url"} : setCurrentUrl(url)
    \/ \E c \in calls : ServerAutomation(c)
    \/ \E c \in calls : Settle(c)

SpecAutomation == InitUnmounted /\ [][NextAutomation]_vars

\* The cookies of the selected session and their selection.
NextCookies ==
    \/ \E session \in Sessions : SelectSession(session)
    \/ \E tab \in {"cookies", "profile", "automation"} : SetActiveTab(tab)
    \/ \E id \in 1..MaxCookies : toggleRow(id)
    \/ toggleAll
    \/ handleExtracted
    \/ deleteCookies

SpecCookies == InitUnmounted /\ [][NextCookies]_vars

\* The TunnelManager alone, called by any client in any order.
NextManager ==
    \/ \E session \in Sessions, kind \in Kinds, port \in Ports : ApiStart(session, kind, port)
    \/ \E id \in DOMAIN registry : ApiStop(id)
    \/ \E session \in Sessions : TransportDown(session)

SpecManager == InitUnmounted /\ [][NextManager]_vars

\* The EventBus alone: subscribers come and go, events are published, and the
\* sender task of a connection runs or stalls.
NextBus ==
    \/ \E c \in Connections, topic \in Topics : Subscribe(c, topic)
    \/ \E c \in Connections, topic \in Topics : Unsubscribe(c, topic)
    \/ \E c \in Connections : Teardown(c)
    \/ \E topic \in Topics : Publish(topic)
    \/ \E c \in Connections : Dequeue(c)

SpecBus == InitUnmounted /\ [][NextBus]_vars


TypeOK ==
    /\ reconnectCount \in 0..reconnectAttempts
    /\ Cardinality({s \in Socks : s.ref}) <= 1
    /\ \A s \in Socks : s.ref => Live(s) /\ socks[s] = 1
    /\ Cardinality({t \in Timers : t.tracked}) <= 1
    /\ (\E t \in Timers : t.tracked) => reconnectTimeoutRef = "handle"
    /\ BagCardinality(socks) <= MaxSockets
    /\ Len(timers) <= MaxTimers


\* ------------------------------------------ the states of the connection
\* The four states of the push connection, as the sockets and timers show
\* them: one socket open or connecting and no timer, or one retry timer and
\* no such socket, or neither.  A socket the hook has closed counts no more.
nLive == BagCardinality([s \in {x \in Socks : Live(x)} |-> CopiesIn(s, socks)])
Disconnected == nLive = 0 /\ timers = <<>>
Connecting ==
    /\ timers = <<>>
    /\ nLive = 1 /\ \E s \in Socks : s.st = "CONNECTING"
Open ==
    /\ timers = <<>>
    /\ nLive = 1 /\ \E s \in Socks : s.st = "OPEN"
Reconnecting ==
    /\ nLive = 0
    /\ Len(timers) = 1 /\ timers[1].kind = "retry"

CloseActs == {"ConnectFail", "ServerClose", "CloseEvent"}

\* A step in which a connection of the mounted hook failed: its handshake
\* failed, or the socket was open and was closed with a code other than 1000.
ConnectionFailure(l) ==
    /\ l.act \in {"ConnectFail", "ServerClose"}
    /\ l.arg # CleanClose
    /\ l.owner # "old"

\* ------------------------------------------------------------------ claims

\* C1: once disconnect() has returned, no connection attempt is made until
\* connect() is called, the credentials change or the effect runs again.
C1_DisconnectWins ==
    [][(userDisconnected /\ userDisconnected') => last'.made # "socket"]_vars

C3_FailureRetriesUntilMax ==
    [][(Connecting /\ mounted = "yes" /\ ConnectionFailure(last'))
       => IF reconnectCount < reconnectAttempts
          THEN last'.made = "timer" /\ Reconnecting'
          ELSE last'.made = "" /\ Disconnected']_vars

C5_OpenCloseTransitions ==
    [][(Open /\ mounted = "yes" /\ last'.act = "ServerClose")
       => IF last'.arg = CleanClose
          THEN last'.made = "" /\ Disconnected'
          ELSE last'.made = "timer" /\ Reconnecting']_vars

\* C6: the open event of a socket resets retryCount to 0, and the next
\* unexpected close of that connection has the whole budget: retryCount is
\* still 0 and the close schedules the first of reconnectAttempts retries.
C6_OpenResetsRetryCount ==
    /\ [][last'.act = "onopen" => reconnectCount' = 0]_vars
    /\ [][(Open /\ mounted = "yes" /\ last'.act = "ServerClose" /\ ConnectionFailure(last'))
          => /\ reconnectCount = 0
             /\ last'.made = "timer"
             /\ reconnectCount' = 1]_vars

\* C7: a storage event with a token, with the connection Open or
\* Reconnecting, leaves no socket open or connecting and no retry timer
\* pending, resets retryCount and sets the one timer of the new attempt; the
\* close event of the socket it closed sets no timer; and every socket is made
\* with the token stored when it is made.
C7_CredentialChange ==
    /\ [][((Open \/ Reconnecting) /\ mounted = "yes"
           /\ last'.act = "StorageChange" /\ token' # NoToken)
          => /\ reconnectCount' = 0
             /\ \A s \in BagToSet(socks') : ~Live(s)
             /\ \A i \in DOMAIN timers' : timers'[i].kind # "retry"
             /\ Cardinality({i \in DOMAIN timers' : timers'[i].kind = "token"}) = 1]_vars
    /\ [][(last'.act = "CloseEvent" /\ last'.arg = CleanClose) => last'.made = ""]_vars
    /\ [][last'.made = "socket"
          => \E s \in BagToSet(socks') : s.ref /\ s.st = "CONNECTING" /\ s.tok = token']_vars

\* C8: after the cleanup of the effect no socket the hook made is open or
\* connecting, and no timer set by a close event is pending.
C8_TeardownDestroysConnection ==
    mounted = "no" =>
        /\ \A s \in Socks : ~Live(s)
        /\ \A t \in Timers : t.kind # "retry"

\* C9: a frame whose event is none of the recognized values is logged and
\* changes nothing but lastMessage: no query is refreshed, no toast shown, no
\* notification stored, and sockets, timers and retryCount stay as they are.
C9_UnknownEventIgnored ==
    [][(last'.act = "Receive" /\ lastFrame' # Malformed
        /\ lastFrame'.event \notin RecognizedEvents)
       => /\ last'.made = "log"
          /\ UNCHANGED <<invalidated, toasts, notifications, conn>>]_vars

observable == <<isConnected, toasts, notifications>>

\* C11: a failure of the connection with retries left (retryCount below the
\* maximum) changes nothing the user can observe, and the failure with the
\* retries exhausted does change something the user can observe.
C11_LossInvisibleUntilExhausted ==
    /\ [][(mounted = "yes" /\ ConnectionFailure(last')
           /\ reconnectCount < reconnectAttempts)
          => UNCHANGED observable]_vars
    /\ [][(mounted = "yes" /\ ConnectionFailure(last')
           /\ reconnectCount = reconnectAttempts)
          => observable' # observable]_vars

\* C12: every socket is made with a token in its URL, the token stored when
\* it is made, and keeps it; no step makes a socket while no token is stored;
\* and a frame sent with send() is the caller's data, no token in it.
C12_TokenInHandshakeOnly ==
    /\ [](\A s \in Socks : s.tok \in Tokens)
    /\ [][last'.made = "socket"
          => /\ token # NoToken /\ token' = token
             /\ \E s \in BagToSet(socks') :
                    s.ref /\ s.st = "CONNECTING" /\ s.tok = token]_vars
    /\ [][last'.act = "send"
          => /\ lastFrame' \in {NoFrame} \cup [event : {"send"}, data : Payloads]
             /\ UNCHANGED conn]_vars

\* C12 witness: a socket made with the token t1 is closing, the stored token
\* is now t2, and the timer of the credential change has made a socket with t2.
C12_Witness ==
    /\ last = Step("TimerFire", "token", 0, "socket")
    /\ token = "t2"
    /\ \E s \in Socks : s.ref /\ s.st = "CONNECTING" /\ s.tok = "t2"
    /\ \E s \in Socks : s.st = "CLOSING" /\ s.tok = "t1"

\* C13: when the response to a start request is an error, a toast shows the
\* server's message (PortInUse, SessionUnavailable), and the panel that sent
\* the request, if still mounted, is as before the request: inactive, no
\* tunnel id, no URLs or config, the same port, and no mutation pending.
C13_StartFailureLeavesPanel ==
    [][\A resp \in responses :
          (last'.act = "Deliver" /\ responses' = responses \ {resp}
           /\ resp.op = "start" /\ ~resp.ok)
          => /\ resp.error \in {"PortInUse", "SessionUnavailable"}
             /\ \E t \in toasts' : t.about = resp.error /\ t.variant = "destructive"
             /\ panel.inst = resp.inst
                => /\ panel' = [panel EXCEPT !.startPending = FALSE]
                   /\ ~panel'.active /\ panel'.tunnelId = NoTunnel /\ panel'.urls = NoTunnel
                   /\ ~isPending(panel')]_vars

\* C13 witness: the panel mounted has had PortInUse for an answer to its start.
C13_Witness ==
    /\ panel # NoPanel
    /\ last = Step("Deliver", "start", panel.inst, "error")
    /\ \E t \in toasts : t.about = "PortInUse"
    /\ \A t \in toasts : t.about # "SessionUnavailable"
    /\ ~panel.active /\ ~isPending(panel)

\* The requests of the panel of `kind` of `session` that have not settled.
inFlight(session, kind) ==
    {r \in requests \cup responses : r.session = session /\ r.kind = kind}

\* The tunnel the latest successful StartTunnel for that panel returned.
latestStarted(session, kind) ==
    LET mine == {i \in DOMAIN registry :
                    registry[i].session = session /\ registry[i].kind = kind}
    IN  IF mine = {} THEN NoTunnel ELSE CHOOSE i \in mine : \A j \in mine : j <= i

\* C14: a panel issues a start or a stop only when no request of that panel
\* (the same session and kind of tunnel) is in flight, and a stop only with
\* the tunnel id the latest successful start returned.
C14_StartStopSerialized ==
    /\ [][(last'.act = "handleToggle" /\ requests' # requests)
          => inFlight(panel.session, panel.kind) = {}]_vars
    /\ [][(last'.act = "handleToggle" /\ last'.owner = "stop" /\ requests' # requests)
          => last'.arg = latestStarted(panel.session, panel.kind)]_vars

\* The tunnels in state Active.
Active == {i \in DOMAIN registry : registry[i].state = "Active"}

C16_StopIdempotent ==
    [][\A id \in DOMAIN registry :
          (ApiStop(id) /\ registry[id].state \in {"Closed", "Failed"})
          => /\ last' = Step("StopTunnel", "", id, "")
             /\ registry' = registry]_vars

\* C16 witness: a tunnel that was stopped is stopped again.
C16_Witness ==
    /\ last.act = "StopTunnel" /\ last.owner = "" /\ last.made = ""
    /\ last.arg \in DOMAIN registry
    /\ registry[last.arg].state = "Closed"

\* The events pending in a queue.
pending(q) == {q[i] : i \in DOMAIN q}

C18_OnlySubscribersReceive ==
    /\ [][last'.act = "Publish"
          => \A c \in Connections :
               /\ Event(last'.arg, last'.owner) \in pending(queues'[c]) => c \in subs[last'.owner]
               /\ c \notin subs[last'.owner] => queues'[c] = queues[c]]_vars
    /\ [][last'.act # "Publish"
          => \A c \in Connections : pending(queues'[c]) \subseteq pending(queues[c])]_vars
    /\ [][last'.act = "Dequeue"
          => queues[last'.owner] # <<>> /\ last'.arg = Head(queues[last'.owner]).n]_vars
    /\ [][last'.act = "Teardown"
          => queues'[last'.owner] = <<>> /\ \A t \in Topics : last'.owner \notin subs'[t]]_vars
    /\ [][(last'.act \in {"Subscribe", "Unsubscribe", "Teardown"} /\ last'.made = "")
          => UNCHANGED <<subs, queues>>]_vars
    /\ [](\A c \in Connections, t \in Topics :
            /\ subscribe(subscribe(subs, c, t), c, t) = subscribe(subs, c, t)
            /\ unsubscribe(unsubscribe(subs, c, t), c, t) = unsubscribe(subs, c, t)
            /\ teardown(teardown(subs, c), c) = teardown(subs, c))

\* C18 witness: c1 holds an event of a topic it has since unsubscribed from,
\* and the event just published on that topic is in the queue of c2 only.
C18_Witness ==
    /\ last.act = "Publish"
    /\ "c1" \notin subs[last.owner] /\ "c2" \in subs[last.owner]
    /\ \E x \in pending(queues["c1"]) : x.topic = last.owner
    /\ Event(last.arg, last.owner) \in pending(queues["c2"]) \ pending(queues["c1"])

\* C19: a frame that parses, received on any open socket, whoever opened the
\* socket, becomes lastMessage and has the effects handleMessage gives its
\* event.
C19_EveryFrameDispatched ==
    [][(last'.act = "Receive" /\ lastFrame' # Malformed)
       => /\ lastMessage' = lastFrame'
          /\ <<lastMessage', invalidated', toasts', notifications'>>
                = LET c == handleMessage(lastFrame', [lastMessage |-> lastMessage,
                                                     invalidated |-> invalidated,
                                                     toasts |-> toasts,
                                                     notifications |-> notifications])
                  IN  <<c.lastMessage, c.invalidated, c.toasts, c.notifications>>]_vars

\* What handleMessage does for a frame beyond setting lastMessage: the query
\* keys it invalidates, the toasts it shows and the notifications it stores.
sideEffects(f) ==
    LET c == handleMessage(f, [lastMessage |-> NoFrame, invalidated |-> {}, toasts |-> {},
                               notifications |-> {}])
    IN  [invalidated |-> c.invalidated, toasts |-> c.toasts, notifications |-> c.notifications]

\* The events that refresh queries and the events that notify the user.
RefreshEvents ==
    {"session.new", "session.lost", "beacon.new", "beacon.checkin", "task_completed"}
NotifyEvents ==
    {"session.new", "session.lost", "beacon.new", "task_completed", "notification"}

\* C20: every recognized event that handleMessage dispatches has at least one
\* side effect, a refresh of queries or a toast or a notification, and the
\* state after the frame holds it.
C20_EveryEventHasEffect ==
    [][(last'.act = "Receive" /\ last'.owner # "manual" /\ lastFrame' # Malformed
        /\ lastFrame'.event \in RecognizedEvents)
       => LET e == sideEffects(lastFrame')
          IN  /\ e.invalidated # {} \/ e.toasts # {} \/ e.notifications # {}
              /\ e.invalidated \subseteq invalidated'
              /\ e.toasts \subseteq toasts'
              /\ e.notifications \subseteq notifications']_vars

\* C20 as the code has it: session.new, session.lost, beacon.new,
\* beacon.checkin and task_completed refresh queries; session.new,
\* session.lost, beacon.new, task_completed and notification show a toast and
\* store a notification; connected, ping, pong, subscribed and error leave the
\* queries, the toasts and the notifications as they were.
C20_EffectsByEvent ==
    [][(last'.act = "Receive" /\ last'.owner # "manual" /\ lastFrame' # Malformed
        /\ lastFrame'.event \in RecognizedEvents)
       => LET e == sideEffects(lastFrame')
              ev == lastFrame'.event
          IN  /\ invalidated' = invalidated \cup e.invalidated
              /\ toasts' = toasts \cup e.toasts
              /\ notifications' = notifications \cup e.notifications
              /\ lastMessage' = lastFrame'
              /\ ev \in RefreshEvents <=> e.invalidated # {}
              /\ ev \in NotifyEvents <=> e.toasts # {}
              /\ ev \in NotifyEvents <=> e.notifications # {}
              /\ ev \notin RefreshEvents \cup NotifyEvents
                 => UNCHANGED <<invalidated, toasts, notifications>>]_vars

\* C20 witness: after a session.new, a beacon.checkin that refreshed the
\* beacons and notified nobody, then a ping that changed nothing.
C20_Witness ==
    /\ last = Step("Receive", "cur", 0, "")
    /\ lastFrame.event = "ping" /\ lastMessage = lastFrame
    /\ nframes = 3
    /\ invalidated = {<<"sessions">>, <<"beacons">>, <<"dashboard-stats">>}
    /\ Cardinality(toasts) = 1 /\ Cardinality(notifications) = 1

\* C21: while a tunnel a panel started is Active on the server and no request
\* of that panel is in flight, the panel of that session and kind, when it is
\* the one mounted, is active and holds the id of the tunnel.
C21_RunningTunnelHeld ==
    (\A i \in Active :
          (/\ panel.kind = registry[i].kind
           /\ panel.session = registry[i].session
           /\ inFlight(panel.session, panel.kind) = {})
          => panel.active /\ panel.tunnelId = i)

\* C22: the panel mounted has its active flag, its tunnel id and its URLs or
\* config all set or all clear, the URLs being those of the tunnel held; and
\* a stop that fails leaves the three as they were.
C22_ActiveIdUrlsTogether ==
    /\ [](/\ panel.active <=> panel.tunnelId # NoTunnel
          /\ panel.active <=> panel.urls # NoTunnel
          /\ panel.urls = panel.tunnelId)
    /\ [][(last'.act = "Deliver" /\ last'.owner = "stop" /\ last'.made = "error")
          => /\ panel'.active = panel.active
             /\ panel'.tunnelId = panel.tunnelId
             /\ panel'.urls = panel.urls]_vars

\* C22 witness: the stop of the panel mounted has failed and the panel is
\* still active with its tunnel, after an earlier stop had cleared a panel.
C22_Witness ==
    /\ panel # NoPanel
    /\ last = Step("Deliver", "stop", panel.inst, "error")
    /\ panel.active /\ panel.tunnelId # NoTunnel /\ panel.urls = panel.tunnelId
    /\ ~isPending(panel)
    /\ \E i \in DOMAIN registry : registry[i].state = "Closed"

\* C23: while the AutomationPanel is inactive (automationId null) it shows no
\* screenshot, no page title, no URL and an empty JS history.
C23_InactiveAutomationClear ==
    automation.automationId = NoAutomationId
    => /\ automation.screenshot = "null"
       /\ automation.pageTitle = ""
       /\ automation.currentUrl = ""
       /\ automation.jsHistory = <<>>

\* The scripts of the input entries of a history, and the entry that answers
\* a script: its output or its error, or the error of a request that failed.
inputs(h) == [k \in 1..(Len(h) \div 2) |-> h[2 * k - 1].text]
answers(script) ==
    {JsHistoryEntry("error", getApiErrorMessage("failed")),
     IF evaluate(script).error # ""
     THEN JsHistoryEntry("error", evaluate(script).error)
     ELSE JsHistoryEntry("output", resultText(evaluate(script).result))}
infix(a, b) ==
    \E i \in 0..(Len(b) - Len(a)) : \A k \in 1..Len(a) : a[k] = b[i + k]

\* C25: the JS history is a sequence of pairs, an input entry and right after
\* it the output or error entry of that script, the scripts in the order they
\* were submitted; and the instance mounted has at most one execute-JS
\* request under way.
C25_JsHistoryPairs ==
    LET h == automation.jsHistory
    IN  /\ Len(h) % 2 = 0
        /\ \A k \in 1..(Len(h) \div 2) :
              /\ h[2 * k - 1].type = "input"
              /\ h[2 * k - 1].text \in Scripts
              /\ h[2 * k] \in answers(h[2 * k - 1].text)
        /\ infix(inputs(h), submitted)
        /\ Cardinality({c \in calls : c.op = "executeJs" /\ c.inst = automation.inst}) <= 1

\* C25 witness: two scripts were run one after the other, the first threw and
\* the second gave a result.
C25_Witness ==
    /\ submitted = <<"throw", "1+1">>
    /\ automation.jsHistory =
          <<JsHistoryEntry("input", "throw"), JsHistoryEntry("error", "Error"),
            JsHistoryEntry("input", "1+1"), JsHistoryEntry("output", "2")>>
    /\ last.act = "Settle" /\ last.owner = "executeJs"

\* C24: the cookie ids of the page are, while a CookieTable is mounted, the
\* selection of the table, and they are ids of cookies listed for the
\* selected session.
C24_SelectionWithinCookies ==
    /\ tableMounted => selectedCookieIds = selectedIds
    /\ selectedCookieIds \subseteq cookies

====
